---- MODULE Spec2Model ----
(***************************************************************************)
(* Dew Valley: the StateManager (core/state_manager.py) with the driving   *)
(* loop of main.py, the SoilLayer grid (entities/soil.py), the inventory   *)
(* and the timers (core/utils.py), and the player (entities/player.py).    *)
(***************************************************************************)
EXTENDS Integers, Sequences, FiniteSets, TLC

VARIABLES
    states,         \* StateManager.__states: type name -> instance id, 0 = no entry
    current_state,  \* StateManager.__current_state: instance id, 0 = None
    last_state,     \* StateManager.__last_state: instance id, 0 = None
    cls,            \* instance id -> name of its class, "" = not constructed yet
    setups,         \* instance id -> number of setup() calls received
    ran,            \* instance id -> its run() has been entered
    ninst,          \* number of State instances constructed so far
    result,         \* the last manager call: operation, arguments, outcome
    pc,             \* position of the program: idle | run | quit | crash
    forced,         \* history: some call so far was made with force=True
    grid,           \* SoilLayer.grid: cell -> count of each flag in the cell's list
    soil_sprites,   \* SoilLayer.soil_sprites: cell -> tile type, "" = no tile
    all_sprites,    \* SoilLayer.all_sprites: cell -> number of SoilTiles at the cell
    water_sprites,  \* SoilLayer.water_sprites: cell -> number of live WaterTiles
    plant_sprites,  \* SoilLayer.plant_sprites: cell -> plant type, "" = no plant
    age,            \* Plant.age of the cell's plant, in tenths
    harvestable,    \* Plant.harvestable of the cell's plant
    hitbox,         \* the cell's plant has the attribute hitbox
    raining,        \* SoilLayer.raining
    soil_result,    \* the last SoilLayer call: operation, point, outcome
    tile_in,        \* two values of (t, r, b, l) handed to the tile rules
    tile_out,       \* the tile types derived for them, "" = not derived yet
    seq,            \* ItemIterator.seq: the keys in order
    index,          \* ItemIterator.index
    selected,       \* ItemIterator.selected
    max_index,      \* ItemIterator.max_index
    inv,            \* ItemIterator.inv: key -> quantity, for the keys it holds
    it_result,      \* the last ItemIterator call: operation, outcome
    now,            \* pygame.time.get_ticks(): milliseconds on the clock
    timers,         \* timer name -> Timer.start_time, Timer.active
    timer_result,   \* the last Timer call: operation, timer, func was called
    health,         \* Tree.health
    apples,         \* len(Tree.apple_sprites)
    tree_result,    \* the last Tree call: operation, outcome
    direction,      \* Player.direction, <<x, y>> before it is normalised
    sleep,          \* Player.sleep
    player_result,  \* the last Player.update: funcs called, tool used, outcome
    color,          \* Transition.color
    speed,          \* Transition.speed
    resets,         \* history: calls of Game.reset since the player last fell asleep
    game_result     \* the last frame of Game.run: reset was called, outcome

mgrVars == <<states, current_state, last_state, cls, setups, ran, ninst, result, pc, forced>>
soilVars == <<grid, soil_sprites, all_sprites, water_sprites, plant_sprites, age, harvestable, hitbox,
              raining, soil_result>>
tileVars == <<tile_in, tile_out>>
itVars == <<seq, index, selected, max_index, inv, it_result>>
timerVars == <<now, timers, timer_result>>
treeVars == <<health, apples, tree_result>>
playerVars == <<direction, sleep, player_result>>
dayVars == <<color, speed, resets, game_result>>
restVars == <<timerVars, treeVars, playerVars, dayVars>>
vars == <<states, current_state, last_state, cls, setups, ran, ninst, result, pc, forced,
          grid, soil_sprites, all_sprites, water_sprites, plant_sprites, age,
          harvestable, hitbox, raining, soil_result,
          tile_in, tile_out, seq, index, selected, max_index, inv, it_result,
          now, timers, timer_result, health, apples, tree_result,
          direction, sleep, player_result, color, speed, resets, game_result>>

-----------------------------------------------------------------------------
(* Bounds *)

\* State instances constructed in one behaviour
MaxInst == 3
\* State classes handed to one load_states call
MaxBatch == 2

\* The State subclasses of the program (states/__init__.py has Game; Menu
\* stands for a second mode)
StateTypes == {"Game", "Menu"}

\* Identities of State instances; one call may start at MaxInst instances and
\* is then refused by the guard of the action
Insts == 1..(MaxInst + MaxBatch)

RECURSIVE SeqsUpTo(_, _)
SeqsUpTo(S, n) ==
    IF n = 0 THEN {<<>>}
    ELSE LET shorter == SeqsUpTo(S, n - 1)
         IN shorter \cup {Append(s, x) : s \in {q \in shorter : Len(q) = n - 1}, x \in S}

Batches == SeqsUpTo(StateTypes, MaxBatch) \ {<<>>}

-----------------------------------------------------------------------------
(* core/errors.py: the exception classes *)

Bases ==
    [BaseError |-> "Exception",
     StateError |-> "BaseError",
     StateLoadError |-> "BaseError",
     ExitStateError |-> "BaseError",
     ExitGameError |-> "BaseError",
     AssertionError |-> "Exception",
     AttributeError |-> "Exception",
     KeyError |-> "Exception",
     Exception |-> "object"]

\* isinstance(exc, handler) for an exception of class c
RECURSIVE IsSubclass(_, _)
IsSubclass(c, handler) ==
    IF c = handler THEN TRUE
    ELSE IF c = "object" THEN FALSE
    ELSE IsSubclass(Bases[c], handler)

-----------------------------------------------------------------------------
(* core/state_manager.py: each method as a function of the manager *)

\* The manager and the instances it constructed, with the outcome of a call:
\* exc = "" when the call returned, else the class of the raised exception;
\* carried = the last_state attribute of the exception; ret_cls / ret_inst =
\* the returned class (unload_state) or instance (reload_state)
Mgr ==
    [states |-> states, current_state |-> current_state, last_state |-> last_state,
     cls |-> cls, setups |-> setups, ran |-> ran, ninst |-> ninst,
     exc |-> "", carried |-> 0, ret_cls |-> "", ret_inst |-> 0]

Raise(m, e) == [m EXCEPT !.exc = e, !.carried = m.last_state]

\* Mutant: the duplicate check is dropped
RECURSIVE load_states_unchecked(_, _, _)
load_states_unchecked(ts, force, m) ==
    IF ts = <<>> THEN m
    ELSE LET state == Head(ts)
             i == m.ninst + 1
         IN load_states_unchecked(Tail(ts), force,
                                  [m EXCEPT !.ninst = i,
                                            !.cls[i] = state,
                                            !.states[state] = i,
                                            !.setups[i] = @ + 1])

\* Mutant: setup() is called again on every stored instance
RECURSIVE load_states_setup_all(_, _, _)
load_states_setup_all(ts, force, m) ==
    IF ts = <<>> THEN m
    ELSE LET state == Head(ts) IN
         IF ~force /\ m.states[state] # 0
         THEN Raise(m, "StateLoadError")
         ELSE LET i == m.ninst + 1 IN
              load_states_setup_all(Tail(ts), force,
                          [m EXCEPT !.ninst = i,
                                    !.cls[i] = state,
                                    !.states[state] = i,
                                    !.setups = [j \in DOMAIN @ |->
                                                   IF j <= i THEN @[j] + 1 ELSE @[j]]])

\* Mutant: a state that replaces the current one becomes the current state
RECURSIVE load_states_rebinds(_, _, _)
load_states_rebinds(ts, force, m) ==
    IF ts = <<>> THEN m
    ELSE LET state == Head(ts) IN
         IF ~force /\ m.states[state] # 0
         THEN Raise(m, "StateLoadError")
         ELSE LET i == m.ninst + 1 IN
              load_states_rebinds(Tail(ts), force,
                          [m EXCEPT !.ninst = i,
                                    !.cls[i] = state,
                                    !.states[state] = i,
                                    !.setups[i] = @ + 1,
                                    !.current_state =
                                        IF @ # 0 /\ m.cls[@] = state THEN i ELSE @])

\* load_states(*ts, force=force)
RECURSIVE load_states(_, _, _)
load_states(ts, force, m) ==
    IF ts = <<>> THEN m
    ELSE LET state == Head(ts) IN
         IF ~force /\ m.states[state] # 0
         THEN Raise(m, "StateLoadError")
         ELSE LET i == m.ninst + 1 IN
              load_states(Tail(ts), force,
                          [m EXCEPT !.ninst = i,
                                    !.cls[i] = state,
                                    !.states[state] = i,
                                    !.setups[i] = @ + 1])

\* getattr(instance, "__name__"): a State instance has no such attribute (only
\* its class has), so the lookup raises AttributeError
HasNameAttr(i) == FALSE

\* Mutant: the active state is not protected
unload_state_unchecked(state_name, force, m) ==
    IF m.states[state_name] = 0
    THEN Raise(m, "StateLoadError")
    ELSE [m EXCEPT !.ret_cls = m.cls[m.states[state_name]],
                   !.states[state_name] = 0]

\* unload_state(state_name, force=force)
unload_state(state_name, force, m) ==
    IF m.states[state_name] = 0
    THEN Raise(m, "StateLoadError")
    ELSE IF ~force /\ m.current_state # 0
    THEN IF ~HasNameAttr(m.current_state)
         THEN Raise(m, "AttributeError")
         ELSE IF state_name = m.cls[m.current_state]
         THEN Raise(m, "StateError")
         ELSE [m EXCEPT !.ret_cls = m.cls[m.states[state_name]],
                        !.states[state_name] = 0]
    ELSE [m EXCEPT !.ret_cls = m.cls[m.states[state_name]],
                   !.states[state_name] = 0]

\* reload_state(state_name, force=force); returns the new instance
reload_state(state_name, force, m) ==
    LET u == unload_state(state_name, force, m) IN
    IF u.exc # "" THEN u
    ELSE LET l == load_states(<<u.ret_cls>>, force, [u EXCEPT !.ret_cls = ""]) IN
         IF l.exc # "" THEN l
         ELSE [l EXCEPT !.ret_inst = l.states[state_name]]

\* Mutant: last_state is not recorded
change_state_keeps_last(state_name, m) ==
    IF m.states[state_name] = 0
    THEN Raise(m, "AssertionError")
    ELSE [m EXCEPT !.current_state = m.states[state_name]]

\* Mutant: the assertion is dropped, so last_state is assigned before the
\* lookup of the missing name fails
change_state_no_assert(state_name, m) ==
    IF m.states[state_name] = 0
    THEN [Raise(m, "KeyError") EXCEPT !.last_state = m.current_state]
    ELSE [m EXCEPT !.last_state = m.current_state,
                   !.current_state = m.states[state_name]]

\* change_state(state_name)
change_state(state_name, m) ==
    IF m.states[state_name] = 0
    THEN Raise(m, "AssertionError")
    ELSE [m EXCEPT !.last_state = m.current_state,
                   !.current_state = m.states[state_name]]

\* Mutant: the exit clears the current state
update_state_clears(m) ==
    IF m.current_state # 0
    THEN [Raise(m, "ExitStateError") EXCEPT !.current_state = 0]
    ELSE Raise(m, "StateError")

\* Mutant: the exception carries the current state
update_state_carries_current(m) ==
    IF m.current_state # 0
    THEN [Raise(m, "ExitStateError") EXCEPT !.carried = m.current_state]
    ELSE Raise(m, "StateError")

\* update_state()
update_state(m) ==
    IF m.current_state # 0
    THEN Raise(m, "ExitStateError")
    ELSE Raise(m, "StateError")

\* run_state(): enters the run step of the current state
run_state(m) ==
    IF m.current_state # 0
    THEN [m EXCEPT !.ran[m.current_state] = TRUE]
    ELSE Raise(m, "StateError")

\* Mutant: exit_game as its docstring has it, StateError without a current state
exit_game_needs_current(m) ==
    IF m.current_state # 0
    THEN Raise(m, "ExitGameError")
    ELSE Raise(m, "StateError")

\* exit_game()
exit_game(m) == Raise(m, "ExitGameError")

-----------------------------------------------------------------------------
(* main.py: the driving loop *)

\* Mutant: the loop's handler is `except BaseError: pass`
MainHandlerBroad(exc) ==
    IF exc = "" THEN "run"
    ELSE IF IsSubclass(exc, "BaseError") THEN "idle"
    ELSE "crash"

\* Main.run: `except ExitStateError: pass` goes round the loop again;
\* __main__: `except ExitGameError: pygame.quit()`; anything else is uncaught
MainHandler(exc) ==
    IF exc = "" THEN "run"
    ELSE IF IsSubclass(exc, "ExitStateError") THEN "idle"
    ELSE IF IsSubclass(exc, "ExitGameError") THEN "quit"
    ELSE "crash"

-----------------------------------------------------------------------------
(* The manager's actions.  At "idle" the caller is the program outside a run
   step (Main.__init__, Main.run); at "run" it is the run step of the current
   state, whose exceptions reach the handlers of main.py. *)

NoResult ==
    [op |-> "", arg |-> <<>>, force |-> FALSE, at |-> "idle", after_exit |-> FALSE,
     exc |-> "", carried |-> 0, ret_cls |-> "", ret_inst |-> 0]

MgrInit ==
    /\ states = [t \in StateTypes |-> 0]
    /\ current_state = 0
    /\ last_state = 0
    /\ cls = [i \in Insts |-> ""]
    /\ setups = [i \in Insts |-> 0]
    /\ ran = [i \in Insts |-> FALSE]
    /\ ninst = 0
    /\ result = NoResult
    /\ pc = "idle"
    /\ forced = FALSE

\* The manager after a call that produced r, made by the code at pc
Call(op, arg, force, r) ==
    /\ pc \in {"idle", "run"}
    /\ r.ninst <= MaxInst
    /\ states' = r.states
    /\ current_state' = r.current_state
    /\ last_state' = r.last_state
    /\ cls' = r.cls
    /\ setups' = r.setups
    /\ ran' = r.ran
    /\ ninst' = r.ninst
    /\ result' = [op |-> op, arg |-> arg, force |-> force, at |-> pc,
                  after_exit |-> FALSE,
                  exc |-> r.exc, carried |-> r.carried,
                  ret_cls |-> r.ret_cls, ret_inst |-> r.ret_inst]
    /\ pc' = IF pc = "run" THEN MainHandler(r.exc) ELSE "idle"
    /\ forced' = (forced \/ force)
    /\ UNCHANGED <<soilVars, tileVars, itVars, restVars>>

LoadStates ==
    \E ts \in Batches, force \in BOOLEAN :
        Call("load_states", ts, force, load_states(ts, force, Mgr))

UnloadState ==
    \E n \in StateTypes, force \in BOOLEAN :
        Call("unload_state", <<n>>, force, unload_state(n, force, Mgr))

ReloadState ==
    \E n \in StateTypes, force \in BOOLEAN :
        Call("reload_state", <<n>>, force, reload_state(n, force, Mgr))

ChangeState ==
    \E n \in StateTypes :
        Call("change_state", <<n>>, FALSE, change_state(n, Mgr))

UpdateState == Call("update_state", <<>>, FALSE, update_state(Mgr))

ExitGame == Call("exit_game", <<>>, FALSE, exit_game(Mgr))

\* The run step of the current state has just left through update_state
\* (ExitStateError), and nothing was called since
ExitedState ==
    result.op = "update_state" /\ result.exc = "ExitStateError" /\ result.at = "run"

\* Main.run: one iteration of `while True: try: self.state_manager.run_state()`
RunState ==
    /\ pc = "idle"
    /\ LET r == run_state(Mgr) IN
        /\ ran' = r.ran
        /\ result' = [NoResult EXCEPT !.op = "run_state", !.exc = r.exc,
                                      !.carried = r.carried,
                                      !.after_exit = ExitedState]
        /\ pc' = MainHandler(r.exc)
    /\ UNCHANGED <<states, current_state, last_state, cls, setups, ninst, forced>>
    /\ UNCHANGED <<soilVars, tileVars, itVars, restVars>>

\* The run step of the current state returns
RunReturns ==
    /\ pc = "run"
    /\ pc' = "idle"
    /\ result' = [NoResult EXCEPT !.op = "return", !.at = "run"]
    /\ UNCHANGED <<states, current_state, last_state, cls, setups, ran, ninst, forced>>
    /\ UNCHANGED <<soilVars, tileVars, itVars, restVars>>

MgrNext ==
    \/ LoadStates
    \/ UnloadState
    \/ ReloadState
    \/ ChangeState
    \/ UpdateState
    \/ ExitGame
    \/ RunState
    \/ RunReturns

-----------------------------------------------------------------------------
(* entities/soil.py: the SoilLayer *)

\* Rows and columns of the grid (v_tiles, h_tiles of the ground image)
Rows == 3
Cols == 3
\* Farmable tiles of the map
MaxFarmable == 2
\* Copies of one flag kept in a cell's list
MaxDup == 2
\* SoilTiles kept in all_sprites for one cell
MaxTiles == 2

\* Length of ItemIterator.seq
MaxSeq == 3
\* Largest ItemIterator.max_index
MaxIndex == 4
\* Largest quantity of a key, and smallest below zero
MaxQty == 2

\* Farmable tiles of the map when plants grow on it
MaxPlots == 1
\* Images in the folder of a plant type (Plant.frames)
Frames == 4

TILE_SIZE == 64

\* settings.GROW_SPEED, in tenths
GROW_SPEED == [corn |-> 10, tomato |-> 7]

Cells == (0..(Rows - 1)) \X (0..(Cols - 1))

\* Points handed to the operations: the middle of every farmable cell, the
\* middle of one cell that is not farmable, a point left of and above the grid
\* and a point right of and below it
Middle(cell) == <<cell[2] * TILE_SIZE + 32, cell[1] * TILE_SIZE + 32>>
Points ==
    LET farmable == {c \in Cells : grid[c].F > 0}
        rest == Cells \ farmable
    IN {Middle(c) : c \in farmable}
       \cup (IF rest = {} THEN {} ELSE {Middle(CHOOSE c \in rest : TRUE)})
       \cup {<<-1, -1>>, <<Cols * TILE_SIZE, Rows * TILE_SIZE>>}

SeedKinds == {"corn", "tomato"}

\* pygame.Rect(x, y, TILE_SIZE, TILE_SIZE).collidepoint(point) for the rect of
\* cell <<row, col>>; point = <<px, py>>
collidepoint(cell, point) ==
    /\ cell[2] * TILE_SIZE <= point[1]
    /\ point[1] < cell[2] * TILE_SIZE + TILE_SIZE
    /\ cell[1] * TILE_SIZE <= point[2]
    /\ point[2] < cell[1] * TILE_SIZE + TILE_SIZE

\* Python's list[i] on a list of length n: a negative index counts from the
\* end, an index outside [-n, n) raises IndexError
IndexError(i, n) == i >= n \/ i < -n
PyIndex(i, n) == IF i < 0 THEN i + n ELSE i

\* The SoilLayer, with the exception a call ended in ("" = returned)
Soil ==
    [grid |-> grid, soil_sprites |-> soil_sprites, all_sprites |-> all_sprites,
     water_sprites |-> water_sprites,
     plant_sprites |-> plant_sprites, age |-> age, harvestable |-> harvestable,
     hitbox |-> hitbox, raining |-> raining, exc |-> ""]

\* create_hit_rects: one rect per cell holding "F"
hit_rects(s) == {c \in Cells : s.grid[c].F > 0}

\* The chain with the last rule lacking `and not t`
tile_type_lrt_loose(t, r, b, l) ==
    LET s0 == "o"
        s1 == IF t /\ r /\ b /\ l THEN "x" ELSE s0
        s2 == IF l /\ ~(t \/ r \/ b) THEN "r" ELSE s1
        s3 == IF r /\ ~(t \/ l \/ b) THEN "l" ELSE s2
        s4 == IF r /\ l /\ ~(t \/ b) THEN "lr" ELSE s3
        s5 == IF t /\ ~(r \/ l \/ b) THEN "b" ELSE s4
        s6 == IF b /\ ~(r \/ l \/ t) THEN "t" ELSE s5
        s7 == IF b /\ t /\ ~(r \/ l) THEN "tb" ELSE s6
        s8 == IF l /\ b /\ ~(t \/ r) THEN "tr" ELSE s7
        s9 == IF r /\ b /\ ~(t \/ l) THEN "tl" ELSE s8
        s10 == IF l /\ t /\ ~(b \/ r) THEN "br" ELSE s9
        s11 == IF r /\ t /\ ~(b \/ l) THEN "bl" ELSE s10
        s12 == IF (t /\ b /\ r) /\ ~l THEN "tbr" ELSE s11
        s13 == IF (t /\ b /\ l) /\ ~r THEN "tbl" ELSE s12
        s14 == IF (l /\ r /\ t) /\ ~b THEN "lrb" ELSE s13
        s15 == IF l /\ r /\ b THEN "lrt" ELSE s14
    IN s15

\* The chain of `if`s of create_soil_tiles: every rule is tested, the last
\* one that matches sets tile_type
tile_type(t, r, b, l) ==
    LET s0 == "o"
        s1 == IF t /\ r /\ b /\ l THEN "x" ELSE s0
        s2 == IF l /\ ~(t \/ r \/ b) THEN "r" ELSE s1
        s3 == IF r /\ ~(t \/ l \/ b) THEN "l" ELSE s2
        s4 == IF r /\ l /\ ~(t \/ b) THEN "lr" ELSE s3
        s5 == IF t /\ ~(r \/ l \/ b) THEN "b" ELSE s4
        s6 == IF b /\ ~(r \/ l \/ t) THEN "t" ELSE s5
        s7 == IF b /\ t /\ ~(r \/ l) THEN "tb" ELSE s6
        s8 == IF l /\ b /\ ~(t \/ r) THEN "tr" ELSE s7
        s9 == IF r /\ b /\ ~(t \/ l) THEN "tl" ELSE s8
        s10 == IF l /\ t /\ ~(b \/ r) THEN "br" ELSE s9
        s11 == IF r /\ t /\ ~(b \/ l) THEN "bl" ELSE s10
        s12 == IF (t /\ b /\ r) /\ ~l THEN "tbr" ELSE s11
        s13 == IF (t /\ b /\ l) /\ ~r THEN "tbl" ELSE s12
        s14 == IF (l /\ r /\ t) /\ ~b THEN "lrb" ELSE s13
        s15 == IF (l /\ r /\ b) /\ ~t THEN "lrt" ELSE s14
    IN s15

\* The guarded assignments of that chain in the order of the code, each with
\* the tile type it assigns; "o" is assigned before them without a guard
tile_rules(t, r, b, l) ==
    << <<t /\ r /\ b /\ l, "x">>,
       <<l /\ ~(t \/ r \/ b), "r">>,
       <<r /\ ~(t \/ l \/ b), "l">>,
       <<r /\ l /\ ~(t \/ b), "lr">>,
       <<t /\ ~(r \/ l \/ b), "b">>,
       <<b /\ ~(r \/ l \/ t), "t">>,
       <<b /\ t /\ ~(r \/ l), "tb">>,
       <<l /\ b /\ ~(t \/ r), "tr">>,
       <<r /\ b /\ ~(t \/ l), "tl">>,
       <<l /\ t /\ ~(b \/ r), "br">>,
       <<r /\ t /\ ~(b \/ l), "bl">>,
       <<(t /\ b /\ r) /\ ~l, "tbr">>,
       <<(t /\ b /\ l) /\ ~r, "tbl">>,
       <<(l /\ r /\ t) /\ ~b, "lrb">>,
       <<(l /\ r /\ b) /\ ~t, "lrt">> >>

\* The cells in the order of the two nested enumerate loops
CellAt(k) == <<(k - 1) \div Cols, (k - 1) % Cols>>

\* create_soil_tiles from the k-th cell on; tiles = soil_sprites so far
RECURSIVE soil_tiles_from(_, _, _)
soil_tiles_from(k, s, tiles) ==
    IF k > Rows * Cols THEN [s EXCEPT !.soil_sprites = tiles]
    ELSE LET row == CellAt(k)[1]
             col == CellAt(k)[2]
         IN IF s.grid[<<row, col>>].X = 0
            THEN soil_tiles_from(k + 1, s, tiles)
            ELSE IF IndexError(row - 1, Rows) \/ IndexError(row + 1, Rows)
                    \/ IndexError(col + 1, Cols) \/ IndexError(col - 1, Cols)
            THEN [s EXCEPT !.soil_sprites = tiles, !.exc = "IndexError"]
            ELSE LET t == s.grid[<<PyIndex(row - 1, Rows), col>>].X > 0
                     b == s.grid[<<PyIndex(row + 1, Rows), col>>].X > 0
                     r == s.grid[<<row, PyIndex(col + 1, Cols)>>].X > 0
                     l == s.grid[<<row, PyIndex(col - 1, Cols)>>].X > 0
                 IN soil_tiles_from(k + 1, [s EXCEPT !.all_sprites[<<row, col>>] = @ + 1],
                                    [tiles EXCEPT ![<<row, col>>] = tile_type(t, r, b, l)])

\* create_soil_tiles(): soil_sprites.empty(), then one SoilTile per "X" cell,
\* added to all_sprites and to soil_sprites
create_soil_tiles(s) == soil_tiles_from(1, s, [c \in Cells |-> ""])

\* water_all() testing "F" in place of "X"
water_all_farmable(s) ==
    LET dry == {c \in Cells : s.grid[c].F > 0 /\ s.grid[c].W = 0} IN
    [s EXCEPT !.grid = [c \in Cells |->
                           IF c \in dry THEN [s.grid[c] EXCEPT !.W = @ + 1]
                           ELSE s.grid[c]],
              !.water_sprites = [c \in Cells |->
                           IF c \in dry THEN s.water_sprites[c] + 1
                           ELSE s.water_sprites[c]]]

\* water_all()
water_all(s) ==
    LET dry == {c \in Cells : s.grid[c].X > 0 /\ s.grid[c].W = 0} IN
    [s EXCEPT !.grid = [c \in Cells |->
                           IF c \in dry THEN [s.grid[c] EXCEPT !.W = @ + 1]
                           ELSE s.grid[c]],
              !.water_sprites = [c \in Cells |->
                           IF c \in dry THEN s.water_sprites[c] + 1
                           ELSE s.water_sprites[c]]]

\* get_hit(point)
get_hit(point, s) ==
    LET hit == {c \in hit_rects(s) : collidepoint(c, point)} IN
    IF hit = {} THEN s
    ELSE LET c == CHOOSE c \in hit : TRUE IN
         IF s.grid[c].F > 0
         THEN LET tilled == [s EXCEPT !.grid[c].X = @ + 1]
                  tiles == create_soil_tiles(tilled)
              IN IF tiles.exc # "" THEN tiles
                 ELSE IF tiles.raining THEN water_all(tiles)
                 ELSE tiles
         ELSE s

\* water(target_pos)
water(target_pos, s) ==
    LET hit == {c \in Cells : s.soil_sprites[c] # "" /\ collidepoint(c, target_pos)} IN
    [s EXCEPT !.grid = [c \in Cells |->
                           IF c \in hit THEN [s.grid[c] EXCEPT !.W = @ + 1]
                           ELSE s.grid[c]],
              !.water_sprites = [c \in Cells |->
                           IF c \in hit THEN s.water_sprites[c] + 1
                           ELSE s.water_sprites[c]]]

\* remove_water()
remove_water(s) ==
    [s EXCEPT !.water_sprites = [c \in Cells |-> 0],
              !.grid = [c \in Cells |->
                           IF s.grid[c].W > 0 THEN [s.grid[c] EXCEPT !.W = @ - 1]
                           ELSE s.grid[c]]]

\* check_watered(pos): the exception it ends in and the value it returns
check_watered(pos, s) ==
    LET x == pos[1] \div TILE_SIZE
        y == pos[2] \div TILE_SIZE
    IN IF IndexError(y, Rows) \/ IndexError(x, Cols)
       THEN [exc |-> "IndexError", is_watered |-> FALSE]
       ELSE [exc |-> "",
             is_watered |-> s.grid[<<PyIndex(y, Rows), PyIndex(x, Cols)>>].W > 0]

\* Mutant: the seed is planted in the cell under the point, tilled or not
plant_seed_anywhere(target_pos, seed, s) ==
    LET hit == {c \in Cells : collidepoint(c, target_pos) /\ s.grid[c].P = 0} IN
    [s EXCEPT !.grid = [c \in Cells |->
                           IF c \in hit THEN [s.grid[c] EXCEPT !.P = @ + 1]
                           ELSE s.grid[c]],
              !.plant_sprites = [c \in Cells |->
                           IF c \in hit THEN seed ELSE s.plant_sprites[c]],
              !.age = [c \in Cells |-> IF c \in hit THEN 0 ELSE s.age[c]],
              !.harvestable = [c \in Cells |->
                           IF c \in hit THEN FALSE ELSE s.harvestable[c]],
              !.hitbox = [c \in Cells |-> IF c \in hit THEN FALSE ELSE s.hitbox[c]]]

\* plant_seed(target_pos, seed); Plant.__init__ sets age = 0 and
\* harvestable = False and sets no hitbox
plant_seed(target_pos, seed, s) ==
    LET hit == {c \in Cells : /\ s.soil_sprites[c] # ""
                              /\ collidepoint(c, target_pos)
                              /\ s.grid[c].P = 0} IN
    [s EXCEPT !.grid = [c \in Cells |->
                           IF c \in hit THEN [s.grid[c] EXCEPT !.P = @ + 1]
                           ELSE s.grid[c]],
              !.plant_sprites = [c \in Cells |->
                           IF c \in hit THEN seed ELSE s.plant_sprites[c]],
              !.age = [c \in Cells |-> IF c \in hit THEN 0 ELSE s.age[c]],
              !.harvestable = [c \in Cells |->
                           IF c \in hit THEN FALSE ELSE s.harvestable[c]],
              !.hitbox = [c \in Cells |-> IF c \in hit THEN FALSE ELSE s.hitbox[c]]]

\* Plant.max_age = len(self.frames) - 1, in tenths
max_age == 10 * (Frames - 1)

\* Plant.grow() without the test of check_watered
grow_unwatered(c, s) ==
    LET grown == s.age[c] + GROW_SPEED[s.plant_sprites[c]]
    IN [s EXCEPT !.age[c] = IF grown >= max_age THEN max_age ELSE grown,
                 !.hitbox[c] = @ \/ grown \div 10 > 0,
                 !.harvestable[c] = @ \/ grown >= max_age]

\* Plant.grow() with `>` for `>=` in the test against max_age
grow_strict(c, s) ==
    LET watered == check_watered(Middle(c), s)
        grown == s.age[c] + GROW_SPEED[s.plant_sprites[c]]
    IN IF watered.exc # "" THEN [s EXCEPT !.exc = watered.exc]
       ELSE IF ~watered.is_watered THEN s
       ELSE [s EXCEPT !.age[c] = IF grown > max_age THEN max_age ELSE grown,
                      !.hitbox[c] = @ \/ grown \div 10 > 0,
                      !.harvestable[c] = @ \/ grown > max_age]

\* Plant.grow() with `self.age > 0` for `int(self.age) > 0`
grow_no_int(c, s) ==
    LET watered == check_watered(Middle(c), s)
        grown == s.age[c] + GROW_SPEED[s.plant_sprites[c]]
    IN IF watered.exc # "" THEN [s EXCEPT !.exc = watered.exc]
       ELSE IF ~watered.is_watered THEN s
       ELSE [s EXCEPT !.age[c] = IF grown >= max_age THEN max_age ELSE grown,
                      !.hitbox[c] = @ \/ grown > 0,
                      !.harvestable[c] = @ \/ grown >= max_age]

\* Plant.grow() of the plant of cell c. The plant's rect sits on the bottom
\* of its SoilTile, so rect.center is taken to lie in the plant's own cell
grow(c, s) ==
    LET watered == check_watered(Middle(c), s)
        grown == s.age[c] + GROW_SPEED[s.plant_sprites[c]]
    IN IF watered.exc # "" THEN [s EXCEPT !.exc = watered.exc]
       ELSE IF ~watered.is_watered THEN s
       ELSE [s EXCEPT !.age[c] = IF grown >= max_age THEN max_age ELSE grown,
                      !.hitbox[c] = @ \/ grown \div 10 > 0,
                      !.harvestable[c] = @ \/ grown >= max_age]

\* update_plants() from the k-th cell on
RECURSIVE plants_from(_, _)
plants_from(k, s) ==
    IF k > Rows * Cols \/ s.exc # "" THEN s
    ELSE IF s.plant_sprites[CellAt(k)] = "" THEN plants_from(k + 1, s)
    ELSE plants_from(k + 1, grow(CellAt(k), s))

\* update_plants()
update_plants(s) == plants_from(1, s)

\* Game.reset() with the rain drawn and the grid watered before the plants grow
reset_rain_first(rain, s) ==
    LET drawn == [s EXCEPT !.raining = rain]
        wet == IF rain THEN water_all(drawn) ELSE remove_water(drawn)
    IN update_plants(wet)

\* Game.reset() with the value drawn for raining
reset(rain, s) ==
    LET grown == update_plants(s)
        drawn == [grown EXCEPT !.raining = rain]
    IN IF grown.exc # "" THEN grown
       ELSE IF rain THEN water_all(drawn)
       ELSE remove_water(drawn)

-----------------------------------------------------------------------------
(* The SoilLayer's actions *)

NoFlags == [F |-> 0, X |-> 0, W |-> 0, P |-> 0]

\* SoilLayer.__init__: create_soil_grid puts "F" in the cells of the map's
\* Farmable layer; raining is drawn by Game.__init__
SoilInit ==
    /\ \E farmable \in SUBSET Cells :
        /\ Cardinality(farmable) <= MaxFarmable
        /\ grid = [c \in Cells |-> IF c \in farmable THEN [NoFlags EXCEPT !.F = 1]
                                   ELSE NoFlags]
    /\ soil_sprites = [c \in Cells |-> ""]
    /\ all_sprites = [c \in Cells |-> 0]
    /\ water_sprites = [c \in Cells |-> 0]
    /\ plant_sprites = [c \in Cells |-> ""]
    /\ age = [c \in Cells |-> 0]
    /\ harvestable = [c \in Cells |-> FALSE]
    /\ hitbox = [c \in Cells |-> FALSE]
    /\ raining \in BOOLEAN
    /\ soil_result = [op |-> "", exc |-> ""]

\* The layer after a call that produced s
SoilCall(op, s) ==
    /\ \A c \in Cells : s.grid[c].X <= MaxDup /\ s.grid[c].W <= MaxDup
    /\ \A c \in Cells : s.all_sprites[c] <= MaxTiles
    /\ grid' = s.grid
    /\ soil_sprites' = s.soil_sprites
    /\ all_sprites' = s.all_sprites
    /\ water_sprites' = s.water_sprites
    /\ plant_sprites' = s.plant_sprites
    /\ age' = s.age
    /\ harvestable' = s.harvestable
    /\ hitbox' = s.hitbox
    /\ raining' = s.raining
    /\ soil_result' = [op |-> op, exc |-> s.exc]
    /\ UNCHANGED <<mgrVars, tileVars, itVars, restVars>>

GetHit == \E point \in Points : SoilCall("get_hit", get_hit(point, Soil))

Water == \E point \in Points : SoilCall("water", water(point, Soil))

WaterAll == SoilCall("water_all", water_all(Soil))

RemoveWater == SoilCall("remove_water", remove_water(Soil))

PlantSeed ==
    \E point \in Points, seed \in SeedKinds :
        SoilCall("plant_seed", plant_seed(point, seed, Soil))

SoilNext ==
    \/ GetHit
    \/ Water
    \/ WaterAll
    \/ RemoveWater
    \/ PlantSeed

-----------------------------------------------------------------------------
(* core/utils.py: the ItemIterator, each method as a function of the iterator *)

\* Keys handed to the iterator
Keys == {"hoe", "corn"}
\* Amounts handed to update_item and values handed to set_item
Amounts == {-1, 1, 2}

\* Python's None for the parameter item
None == ""

\* The iterator, with the exception a call ended in ("" = returned)
It ==
    [seq |-> seq, index |-> index, selected |-> selected, max_index |-> max_index,
     inv |-> inv, exc |-> ""]

\* element in self.seq
InSeq(element, it) == \E i \in DOMAIN it.seq : it.seq[i] = element

\* self.selected = self.seq[self.index]; list positions count from 0
select(it) ==
    IF IndexError(it.index, Len(it.seq)) THEN [it EXCEPT !.exc = "IndexError"]
    ELSE [it EXCEPT !.selected = it.seq[PyIndex(it.index, Len(it.seq)) + 1]]

\* ItemIterator.__init__(seq)
ItemIterator(keys) ==
    [seq |-> keys, index |-> 0, selected |-> keys[1], max_index |-> Len(keys) - 1,
     inv |-> [k \in {keys[i] : i \in DOMAIN keys} |-> 1], exc |-> ""]

\* next()
next(it) ==
    select([it EXCEPT !.index = IF it.index + 1 > it.max_index THEN 0
                                ELSE it.index + 1])

\* previous()
previous(it) ==
    select([it EXCEPT !.index = IF it.index - 1 < 0 THEN it.max_index
                                ELSE it.index - 1])

\* append(element)
append(element, it) ==
    [it EXCEPT !.seq = Append(it.seq, element),
               !.inv = (element :> 0) @@ it.inv,
               !.max_index = @ + 1]

\* list.remove(element): the list without the first occurrence of element
RECURSIVE list_remove(_, _)
list_remove(list, element) ==
    IF Head(list) = element THEN Tail(list)
    ELSE <<Head(list)>> \o list_remove(Tail(list), element)

\* remove(element)
remove(element, it) ==
    IF ~InSeq(element, it) THEN [it EXCEPT !.exc = "ValueError"]
    ELSE LET removed == [it EXCEPT !.seq = list_remove(it.seq, element)] IN
         IF element \notin DOMAIN it.inv THEN [removed EXCEPT !.exc = "KeyError"]
         ELSE [removed EXCEPT !.inv = [k \in DOMAIN it.inv \ {element} |-> it.inv[k]],
                              !.max_index = @ - 1]

\* update_item(amount, item). amount is [int |-> n] for an int and
\* [str |-> s] for a str
update_item(amount, item, it) ==
    LET key == IF item = None THEN it.selected ELSE item
        added == IF InSeq(key, it) THEN it
                 ELSE [append(key, it) EXCEPT !.max_index = @ + 1]
    IN IF key \notin DOMAIN added.inv THEN [added EXCEPT !.exc = "KeyError"]
       ELSE IF "int" \notin DOMAIN amount THEN [added EXCEPT !.exc = "TypeError"]
       ELSE [added EXCEPT !.inv[key] = @ + amount.int]

\* set_item(item, value)
set_item(item, value, it) ==
    LET set == [it EXCEPT !.inv = (item :> value) @@ it.inv] IN
    IF InSeq(item, it) THEN set
    ELSE [append(item, set) EXCEPT !.max_index = @ + 1]

-----------------------------------------------------------------------------
(* The ItemIterator's actions *)

\* The lists of different keys the iterator is made from
KeyLists ==
    {keys \in UNION {[1..n -> Keys] : n \in 1..MaxSeq} :
        \A i, j \in DOMAIN keys : i # j => keys[i] # keys[j]}

\* ItemIterator(keys)
ItInit ==
    /\ \E keys \in KeyLists :
        /\ seq = ItemIterator(keys).seq
        /\ index = ItemIterator(keys).index
        /\ selected = ItemIterator(keys).selected
        /\ max_index = ItemIterator(keys).max_index
        /\ inv = ItemIterator(keys).inv
    /\ it_result = [op |-> "", exc |-> ""]

\* The iterator after a call that produced it
ItCall(op, it) ==
    /\ Len(it.seq) <= MaxSeq
    /\ it.max_index <= MaxIndex
    /\ \A k \in DOMAIN it.inv : -MaxQty <= it.inv[k] /\ it.inv[k] <= MaxQty
    /\ seq' = it.seq
    /\ index' = it.index
    /\ selected' = it.selected
    /\ max_index' = it.max_index
    /\ inv' = it.inv
    /\ it_result' = [op |-> op, exc |-> it.exc]

ItNext == ItCall("next", next(It)) /\ UNCHANGED <<mgrVars, soilVars, tileVars, restVars>>

ItPrevious == ItCall("previous", previous(It)) /\ UNCHANGED <<mgrVars, soilVars, tileVars, restVars>>

ItAppend ==
    /\ \E element \in Keys : ItCall("append", append(element, It))
    /\ UNCHANGED <<mgrVars, soilVars, tileVars, restVars>>

ItRemove ==
    /\ \E element \in Keys : ItCall("remove", remove(element, It))
    /\ UNCHANGED <<mgrVars, soilVars, tileVars, restVars>>

ItUpdateItem ==
    /\ \E amount \in Amounts, item \in Keys \cup {None} :
            ItCall("update_item", update_item([int |-> amount], item, It))
    /\ UNCHANGED <<mgrVars, soilVars, tileVars, restVars>>

ItSetItem ==
    /\ \E item \in Keys, value \in Amounts : ItCall("set_item", set_item(item, value, It))
    /\ UNCHANGED <<mgrVars, soilVars, tileVars, restVars>>

IteratorNext ==
    \/ ItNext
    \/ ItPrevious
    \/ ItAppend
    \/ ItRemove
    \/ ItUpdateItem
    \/ ItSetItem

\* Player.__init__: the player's inventory
PlayerInventory ==
    set_item("tomato", 5, set_item("corn", 5,
        ItemIterator(<<"hoe", "axe", "water", "corn", "tomato">>)))

\* The inventory of a player who does not use it
ItIdle ==
    /\ seq = PlayerInventory.seq
    /\ index = PlayerInventory.index
    /\ selected = PlayerInventory.selected
    /\ max_index = PlayerInventory.max_index
    /\ inv = PlayerInventory.inv
    /\ it_result = [op |-> "", exc |-> ""]

-----------------------------------------------------------------------------
(* The farm: the SoilLayer with the plants growing on it *)

\* SoilLayer.__init__ on a map with at most MaxPlots farmable tiles
FarmInit ==
    /\ \E farmable \in SUBSET Cells :
        /\ Cardinality(farmable) <= MaxPlots
        /\ grid = [c \in Cells |-> IF c \in farmable THEN [NoFlags EXCEPT !.F = 1]
                                   ELSE NoFlags]
    /\ soil_sprites = [c \in Cells |-> ""]
    /\ all_sprites = [c \in Cells |-> 0]
    /\ water_sprites = [c \in Cells |-> 0]
    /\ plant_sprites = [c \in Cells |-> ""]
    /\ age = [c \in Cells |-> 0]
    /\ harvestable = [c \in Cells |-> FALSE]
    /\ hitbox = [c \in Cells |-> FALSE]
    /\ raining \in BOOLEAN
    /\ soil_result = [op |-> "", exc |-> ""]

\* A key that is an int, written with its digits; no str key of the program
\* is written so
IntKey(n) == ToString(n)

\* Game.plant_collision() from the k-th cell on, for the cells whose plant's
\* rect collides with the player's hitbox; g = the layer, the inventory and
\* whether update_item was called. update_item(plant.plant_type, 2) binds
\* the plant type to `amount` and 2 to `item`
RECURSIVE collisions_from(_, _, _)
collisions_from(k, touched, g) ==
    IF k > Rows * Cols THEN g
    ELSE LET c == CellAt(k) IN
         IF ~(g.soil.plant_sprites[c] # "" /\ g.soil.harvestable[c] /\ c \in touched)
         THEN collisions_from(k + 1, touched, g)
         ELSE LET updated == update_item([str |-> g.soil.plant_sprites[c]], IntKey(2), g.it)
              IN IF updated.exc # ""
                 THEN [g EXCEPT !.it = updated, !.called = TRUE,
                                !.soil.exc = updated.exc]
                 ELSE collisions_from(k + 1, touched,
                        [g EXCEPT !.it = updated, !.called = TRUE,
                                  !.soil.plant_sprites[c] = "",
                                  !.soil.age[c] = 0,
                                  !.soil.harvestable[c] = FALSE,
                                  !.soil.hitbox[c] = FALSE,
                                  !.soil.grid[c].P = @ - 1])

\* Game.plant_collision()
plant_collision(touched, s, it) ==
    collisions_from(1, touched, [soil |-> s, it |-> it, called |-> FALSE])

UpdatePlants == SoilCall("update_plants", update_plants(Soil))

\* The day ends: Transition.play calls Game.reset
Reset == \E rain \in BOOLEAN : SoilCall("reset", reset(rain, Soil))

\* One frame of Game.run with the player's hitbox on the plants of `touched`
PlantCollision ==
    \E touched \in SUBSET {c \in Cells : plant_sprites[c] # ""} :
        LET g == plant_collision(touched, Soil, It) IN
        /\ grid' = g.soil.grid
        /\ plant_sprites' = g.soil.plant_sprites
        /\ age' = g.soil.age
        /\ harvestable' = g.soil.harvestable
        /\ hitbox' = g.soil.hitbox
        /\ soil_result' = [op |-> "plant_collision", exc |-> g.soil.exc]
        /\ seq' = g.it.seq
        /\ index' = g.it.index
        /\ selected' = g.it.selected
        /\ max_index' = g.it.max_index
        /\ inv' = g.it.inv
        /\ it_result' = [op |-> IF g.called THEN "update_item" ELSE "", exc |-> g.it.exc]
        /\ UNCHANGED <<soil_sprites, all_sprites, water_sprites, raining, mgrVars, tileVars, restVars>>

FarmNext ==
    \/ GetHit
    \/ Water
    \/ WaterAll
    \/ RemoveWater
    \/ PlantSeed
    \/ UpdatePlants
    \/ Reset
    \/ PlantCollision

-----------------------------------------------------------------------------
(* core/utils.py: the Timer, with the timers the Player makes *)

\* The clock is read up to MaxClock, and moves by one of Steps between reads
MaxClock == 1000
Steps == {100, 500}

\* Player.__init__: self.timers
TimerNames == {"interact", "tool_use", "tool_switch", "seed_use"}
Durations == [interact |-> 50, tool_use |-> 500, tool_switch |-> 200, seed_use |-> 200]
HasFunc == [interact |-> TRUE, tool_use |-> TRUE, tool_switch |-> FALSE, seed_use |-> TRUE]

\* Timer.__init__
Timer == [start_time |-> 0, active |-> FALSE]

\* Timer.activate() with get_ticks() = clock
activate(t, clock) == [start_time |-> clock, active |-> TRUE]

\* Timer.deactivate()
deactivate(t) == [start_time |-> 0, active |-> FALSE]

\* Timer.update() of the timer `name` with get_ticks() = clock: the timer
\* afterwards and whether func was called
timer_update(name, t, clock) ==
    IF clock - t.start_time >= Durations[name]
    THEN [timer |-> deactivate(t), called |-> HasFunc[name] /\ t.start_time # 0]
    ELSE [timer |-> t, called |-> FALSE]

\* The timers after construction, at clock 0
TimerInit ==
    /\ now = 0
    /\ timers = [n \in TimerNames |-> Timer]
    /\ timer_result = [op |-> "", name |-> "", called |-> FALSE]

\* The timers whose methods are called one by one
Timed == {"interact", "seed_use"}

TimerActivate ==
    /\ \E n \in Timed :
        /\ timers' = [timers EXCEPT ![n] = activate(@, now)]
        /\ timer_result' = [op |-> "activate", name |-> n, called |-> FALSE]
    /\ UNCHANGED <<now, mgrVars, soilVars, tileVars, itVars, treeVars, playerVars, dayVars>>

TimerDeactivate ==
    /\ \E n \in Timed :
        /\ timers' = [timers EXCEPT ![n] = deactivate(@)]
        /\ timer_result' = [op |-> "deactivate", name |-> n, called |-> FALSE]
    /\ UNCHANGED <<now, mgrVars, soilVars, tileVars, itVars, treeVars, playerVars, dayVars>>

TimerUpdate ==
    /\ \E n \in Timed :
        /\ timers' = [timers EXCEPT ![n] = timer_update(n, @, now).timer]
        /\ timer_result' = [op |-> "update", name |-> n,
                            called |-> timer_update(n, timers[n], now).called]
    /\ UNCHANGED <<now, mgrVars, soilVars, tileVars, itVars, treeVars, playerVars, dayVars>>

\* Time passes
ClockTick ==
    /\ \E dt \in Steps :
        /\ now + dt <= MaxClock
        /\ now' = now + dt
    /\ timer_result' = [op |-> "", name |-> "", called |-> FALSE]
    /\ UNCHANGED <<timers, mgrVars, soilVars, tileVars, itVars, treeVars, playerVars, dayVars>>

TimerNext ==
    \/ TimerActivate
    \/ TimerDeactivate
    \/ TimerUpdate
    \/ ClockTick

-----------------------------------------------------------------------------
(* entities/sprites.py: a Tree and the inventory it pays into *)

\* damage is called until health is MaxOver below zero, and apples are picked
\* until the inventory holds MaxFruit of them
MaxOver == 2
MaxFruit == 4

\* Tree.__init__
max_apples == 3
TreeHealth == 5

\* self.player.inventory.update_item(item="apple"), once per apple of the tree
RECURSIVE apples_from(_, _)
apples_from(n, it) ==
    IF n = 0 \/ it.exc # "" THEN it
    ELSE apples_from(n - 1, update_item([int |-> 1], "apple", it))

\* Tree.damage() with `<=` for `==` in the test of health
damage_while_down(t, it) ==
    LET hit == [t EXCEPT !.health = @ - 1] IN
    IF hit.health <= 0
    THEN LET picked == apples_from(t.apples, it) IN
         IF picked.exc # "" THEN [tree |-> hit, it |-> picked]
         ELSE [tree |-> [hit EXCEPT !.apples = 0],
               it |-> update_item([int |-> 1], "wood", picked)]
    ELSE [tree |-> hit, it |-> it]

\* Tree.damage(): the tree and the inventory afterwards
damage(t, it) ==
    LET hit == [t EXCEPT !.health = @ - 1] IN
    IF hit.health = 0
    THEN LET picked == apples_from(t.apples, it) IN
         IF picked.exc # "" THEN [tree |-> hit, it |-> picked]
         ELSE [tree |-> [hit EXCEPT !.apples = 0],
               it |-> update_item([int |-> 1], "wood", picked)]
    ELSE [tree |-> hit, it |-> it]

\* Tree.interact(): an apple of the tree goes to the inventory
interact(t, it) ==
    IF t.apples > 0
    THEN [tree |-> [t EXCEPT !.apples = @ - 1],
          it |-> update_item([int |-> 1], "apple", it)]
    ELSE [tree |-> t, it |-> it]

Tree == [health |-> health, apples |-> apples]

\* Tree.__init__: create_apple() leaves up to max_apples apples
TreeInit ==
    /\ health = TreeHealth
    /\ apples \in 0..max_apples
    /\ tree_result = [op |-> "", exc |-> ""]

\* The tree and the inventory after a call that produced r
TreeCall(op, r) ==
    /\ r.tree.health >= -MaxOver
    /\ "apple" \in DOMAIN r.it.inv => r.it.inv["apple"] <= MaxFruit
    /\ health' = r.tree.health
    /\ apples' = r.tree.apples
    /\ tree_result' = [op |-> op, exc |-> r.it.exc]
    /\ seq' = r.it.seq
    /\ index' = r.it.index
    /\ selected' = r.it.selected
    /\ max_index' = r.it.max_index
    /\ inv' = r.it.inv
    /\ it_result' = IF r.it = It THEN it_result
                    ELSE [op |-> "update_item", exc |-> r.it.exc]
    /\ UNCHANGED <<mgrVars, soilVars, tileVars, timerVars, playerVars, dayVars>>

\* Player.use_tool with the axe and the target point on the tree
TreeDamage == TreeCall("damage", damage(Tree, It))

\* Player.interact with the target point on the tree
TreeInteract == TreeCall("interact", interact(Tree, It))

\* Game.reset: the apples of the tree are killed and create_apple() is called
TreeReset ==
    /\ \E n \in 0..max_apples : apples' = n
    /\ tree_result' = [op |-> "create_apple", exc |-> ""]
    /\ UNCHANGED <<health, mgrVars, soilVars, tileVars, itVars, timerVars, playerVars, dayVars>>

TreeNext ==
    \/ TreeDamage
    \/ TreeInteract
    \/ TreeReset

\* A map without the tree
TreeIdle ==
    /\ health = TreeHealth
    /\ apples = 0
    /\ tree_result = [op |-> "", exc |-> ""]

-----------------------------------------------------------------------------
(* entities/player.py: Player.update, on a map without trees and traders *)

\* The keys held down in a frame: the direction of the movement keys, and
\* f, space, e and q
Dirs == {<<0, 0>>, <<1, 0>>}
KeySets ==
    {keys \in [dir : Dirs, f : BOOLEAN, space : BOOLEAN, e : BOOLEAN, q : BOOLEAN] :
        ~(keys.space /\ keys.e) /\ ~(keys.space /\ keys.q)}

\* The timers in the order of self.timers.values()
TimerOrder == <<"interact", "tool_use", "tool_switch", "seed_use">>

\* The player with what it acts on, and what an update did: the funcs the
\* timers called, whether input moved the inventory's index, the key
\* use_tool found selected ("" = not called), the exception it ended in
Player ==
    [timers |-> timers, direction |-> direction, sleep |-> sleep, it |-> It,
     soil |-> Soil, called |-> {}, moved |-> FALSE, tool |-> "", exc |-> ""]

\* The calls of input() on the inventory: next() for e, previous() for q,
\* with the tool_switch timer activated first
switch(forward, clock, p) ==
    LET turned == IF forward THEN next(p.it) ELSE previous(p.it) IN
    [p EXCEPT !.timers.tool_switch = activate(@, clock),
              !.it = turned, !.moved = TRUE, !.exc = turned.exc]

\* Player.input() without the test of the tool_switch timer
input_no_cooldown(keys, clock, p) ==
    IF p.timers.tool_use.active \/ p.sleep THEN p
    ELSE LET walking == [p EXCEPT !.direction = keys.dir]
             acting == IF keys.f
                       THEN [walking EXCEPT !.timers.interact = activate(@, clock)]
                       ELSE walking
         IN IF keys.space
            THEN [acting EXCEPT !.timers.tool_use = activate(@, clock),
                                !.direction = <<0, 0>>]
            ELSE IF keys.e THEN switch(TRUE, clock, acting)
            ELSE IF keys.q THEN switch(FALSE, clock, acting)
            ELSE acting

\* Player.input() without the test of the tool_use timer
input_while_using(keys, clock, p) ==
    IF p.sleep THEN p
    ELSE LET walking == [p EXCEPT !.direction = keys.dir]
             acting == IF keys.f
                       THEN [walking EXCEPT !.timers.interact = activate(@, clock)]
                       ELSE walking
         IN IF keys.space
            THEN [acting EXCEPT !.timers.tool_use = activate(@, clock),
                                !.direction = <<0, 0>>]
            ELSE IF keys.e /\ ~acting.timers.tool_switch.active
            THEN switch(TRUE, clock, acting)
            ELSE IF keys.q /\ ~acting.timers.tool_switch.active
            THEN switch(FALSE, clock, acting)
            ELSE acting

\* Player.input(): the keys are read while no tool is in use and the player
\* is awake
input(keys, clock, p) ==
    IF p.timers.tool_use.active \/ p.sleep THEN p
    ELSE LET walking == [p EXCEPT !.direction = keys.dir]
             acting == IF keys.f
                       THEN [walking EXCEPT !.timers.interact = activate(@, clock)]
                       ELSE walking
         IN IF keys.space
            THEN [acting EXCEPT !.timers.tool_use = activate(@, clock),
                                !.direction = <<0, 0>>]
            ELSE IF keys.e /\ ~acting.timers.tool_switch.active
            THEN switch(TRUE, clock, acting)
            ELSE IF keys.q /\ ~acting.timers.tool_switch.active
            THEN switch(FALSE, clock, acting)
            ELSE acting

\* Player.interact(): no tree and no trader is there; on the bed the player
\* falls asleep
player_interact(bed, p) == IF bed THEN [p EXCEPT !.sleep = TRUE] ELSE p

\* Player.use_tool() with get_target_pos() = point
use_tool(point, clock, p) ==
    LET key == p.it.selected
        used == [p EXCEPT !.tool = key]
    IN IF key = "hoe"
       THEN LET hit == get_hit(point, p.soil) IN
            [used EXCEPT !.soil = [hit EXCEPT !.exc = ""], !.exc = hit.exc]
       ELSE IF key = "axe" THEN used
       ELSE IF key = "water"
       THEN [used EXCEPT !.soil = water(point, p.soil)]
       ELSE IF key \in {"corn", "tomato"}
       THEN [used EXCEPT !.timers.seed_use = activate(@, clock),
                         !.direction = <<0, 0>>]
       ELSE used

\* Player.use_seed(): self.soil_layer.plant_seed(self.get_target_pos(),
\* self.inventory.selected, self) hands three arguments to plant_seed, which
\* takes target_pos and seed
use_seed(point, p) ==
    IF p.it.selected \notin DOMAIN p.it.inv THEN [p EXCEPT !.exc = "KeyError"]
    ELSE IF p.it.inv[p.it.selected] > 0 THEN [p EXCEPT !.exc = "TypeError"]
    ELSE p

\* The func of a timer
func(name, point, bed, clock, p) ==
    IF name = "interact" THEN player_interact(bed, p)
    ELSE IF name = "tool_use" THEN use_tool(point, clock, p)
    ELSE IF name = "seed_use" THEN use_seed(point, p)
    ELSE p

\* Player.update_timers() from the k-th timer on: func runs before the timer
\* is deactivated
RECURSIVE timers_from(_, _, _, _, _)
timers_from(k, point, bed, clock, p) ==
    IF k > Len(TimerOrder) \/ p.exc # "" THEN p
    ELSE LET name == TimerOrder[k]
             u == timer_update(name, p.timers[name], clock)
         IN IF ~u.called
            THEN timers_from(k + 1, point, bed, clock, [p EXCEPT !.timers[name] = u.timer])
            ELSE LET r == func(name, point, bed, clock, [p EXCEPT !.called = @ \cup {name}])
                 IN timers_from(k + 1, point, bed, clock,
                        IF r.exc # "" THEN r ELSE [r EXCEPT !.timers[name] = u.timer])

\* Player.update_timers()
update_timers(point, bed, clock, p) == timers_from(1, point, bed, clock, p)

\* Player.update(dt): input(), then update_timers()
player_update(keys, point, bed, clock, p) ==
    LET read == input(keys, clock, p) IN
    IF read.exc # "" THEN read ELSE update_timers(point, bed, clock, read)

\* The map of the player's frames: one farmable tile in the middle
PlayerFarm ==
    /\ grid = [c \in Cells |-> IF c = <<1, 1>> THEN [NoFlags EXCEPT !.F = 1] ELSE NoFlags]
    /\ soil_sprites = [c \in Cells |-> ""]
    /\ all_sprites = [c \in Cells |-> 0]
    /\ water_sprites = [c \in Cells |-> 0]
    /\ plant_sprites = [c \in Cells |-> ""]
    /\ age = [c \in Cells |-> 0]
    /\ harvestable = [c \in Cells |-> FALSE]
    /\ hitbox = [c \in Cells |-> FALSE]
    /\ raining \in BOOLEAN
    /\ soil_result = [op |-> "", exc |-> ""]

\* The points the player's tool reaches: the middle of the farmable tile and
\* a point off the grid
Reach == {Middle(<<1, 1>>), <<-1, -1>>}

\* Player.__init__
PlayerInit ==
    /\ direction = <<0, 0>>
    /\ sleep = FALSE
    /\ player_result = [op |-> "", called |-> {}, moved |-> FALSE, tool |-> "", exc |-> ""]

\* A frame: dt after the last one the player is updated, with the keys held
\* down, the point the player's tool reaches and whether the player touches
\* the bed
PlayerUpdate ==
    /\ player_result.exc = ""
    /\ \E dt \in Steps, keys \in KeySets, point \in Reach, bed \in BOOLEAN :
        /\ now + dt <= MaxClock
        /\ \E r \in {player_update(keys, point, bed, now + dt, Player)} :
            /\ \A c \in Cells : r.soil.grid[c].X <= MaxDup /\ r.soil.grid[c].W <= MaxDup
            /\ \A c \in Cells : r.soil.all_sprites[c] <= MaxTiles
            /\ now' = now + dt
            /\ timers' = r.timers
            /\ direction' = r.direction
            /\ sleep' = r.sleep
            /\ player_result' = [op |-> "update", called |-> r.called, moved |-> r.moved,
                                 tool |-> r.tool, exc |-> r.exc]
            /\ seq' = r.it.seq
            /\ index' = r.it.index
            /\ selected' = r.it.selected
            /\ max_index' = r.it.max_index
            /\ inv' = r.it.inv
            /\ grid' = r.soil.grid
            /\ soil_sprites' = r.soil.soil_sprites
            /\ all_sprites' = r.soil.all_sprites
            /\ water_sprites' = r.soil.water_sprites
            /\ plant_sprites' = r.soil.plant_sprites
            /\ age' = r.soil.age
            /\ harvestable' = r.soil.harvestable
            /\ hitbox' = r.soil.hitbox
            /\ raining' = r.soil.raining
    /\ UNCHANGED <<it_result, soil_result, timer_result, mgrVars, tileVars, treeVars, dayVars>>

\* Transition.run ends the night
Wake ==
    /\ player_result.exc = ""
    /\ sleep
    /\ sleep' = FALSE
    /\ player_result' = [op |-> "wake", called |-> {}, moved |-> FALSE, tool |-> "", exc |-> ""]
    /\ UNCHANGED <<direction, mgrVars, soilVars, tileVars, itVars, timerVars, treeVars, dayVars>>

PlayerNext ==
    \/ PlayerUpdate
    \/ Wake

-----------------------------------------------------------------------------
(* states/game.py and entities/transition.py: the frames of Game.run with
   the nights, the trader's shop closed *)

\* The game: the layer, the inventory, the player's sleep and the Transition,
\* with what a frame did: reset was called, the exception it ended in
Game ==
    [soil |-> Soil, it |-> It, sleep |-> sleep, color |-> color, speed |-> speed,
     reset |-> FALSE, exc |-> ""]

\* Transition.run() with the value Game.reset draws for raining
transition_run(rain, g) ==
    LET faded == g.color + g.speed
        dark == IF faded <= 0
                THEN LET grown == reset(rain, g.soil) IN
                     [g EXCEPT !.speed = -g.speed, !.color = 0,
                               !.soil = [grown EXCEPT !.exc = ""],
                               !.reset = TRUE, !.exc = grown.exc]
                ELSE [g EXCEPT !.color = faded]
    IN IF dark.exc # "" THEN dark
       ELSE IF dark.color > 255
       THEN [dark EXCEPT !.color = 255, !.sleep = FALSE, !.speed = -2]
       ELSE dark

\* self.all_sprites.update(dt) of a player who uses no tool: on the bed the
\* player falls asleep
sprites_update(bed, g) == [g EXCEPT !.sleep = @ \/ bed]

\* The body of the loop of Game.run: all_sprites.update(dt),
\* plant_collision(), and transition.run() while the player sleeps
game_run(bed, touched, rain, g) ==
    LET updated == sprites_update(bed, g) IN
         LET c == plant_collision(touched, updated.soil, updated.it)
             collided == [updated EXCEPT !.soil = [c.soil EXCEPT !.exc = ""],
                                         !.it = c.it, !.exc = c.soil.exc]
         IN IF collided.exc # "" THEN collided
            ELSE IF collided.sleep THEN transition_run(rain, collided)
            ELSE collided

\* The farm of a game in progress: the tile in the middle is tilled and
\* bears corn that is new or has grown on two days; it is dry, or wet from
\* the watering can or from the day's rain
DayFarm ==
    \E grown \in {0, 2}, wet \in BOOLEAN, rain \in BOOLEAN :
        /\ rain => wet
        /\ grid = [c \in Cells |->
                    IF c = <<1, 1>>
                    THEN [F |-> 1, X |-> 1, W |-> IF wet THEN 1 ELSE 0, P |-> 1]
                    ELSE NoFlags]
        /\ soil_sprites = [c \in Cells |-> IF c = <<1, 1>> THEN "o" ELSE ""]
        /\ all_sprites = [c \in Cells |-> IF c = <<1, 1>> THEN 1 ELSE 0]
        /\ water_sprites = [c \in Cells |-> IF c = <<1, 1>> /\ wet THEN 1 ELSE 0]
        /\ plant_sprites = [c \in Cells |-> IF c = <<1, 1>> THEN "corn" ELSE ""]
        /\ age = [c \in Cells |-> IF c = <<1, 1>> THEN grown * GROW_SPEED.corn ELSE 0]
        /\ harvestable = [c \in Cells |-> FALSE]
        /\ hitbox = [c \in Cells |-> c = <<1, 1>> /\ grown > 0]
        /\ raining = rain
        /\ soil_result = [op |-> "", exc |-> ""]

\* Transition.__init__
DayInit ==
    /\ color = 255
    /\ speed = -2
    /\ resets = 0
    /\ game_result = [op |-> "", reset |-> FALSE, exc |-> ""]

\* A frame of Game.run, until an exception leaves the loop
GameRun ==
    /\ game_result.exc = ""
    /\ \E bed \in BOOLEAN, rain \in BOOLEAN,
          touched \in SUBSET {c \in Cells : plant_sprites[c] # ""} :
        \E r \in {game_run(bed, touched, rain, Game)} :
            /\ grid' = r.soil.grid
            /\ soil_sprites' = r.soil.soil_sprites
            /\ all_sprites' = r.soil.all_sprites
            /\ water_sprites' = r.soil.water_sprites
            /\ plant_sprites' = r.soil.plant_sprites
            /\ age' = r.soil.age
            /\ harvestable' = r.soil.harvestable
            /\ hitbox' = r.soil.hitbox
            /\ raining' = r.soil.raining
            /\ seq' = r.it.seq
            /\ index' = r.it.index
            /\ selected' = r.it.selected
            /\ max_index' = r.it.max_index
            /\ inv' = r.it.inv
            /\ sleep' = r.sleep
            /\ color' = r.color
            /\ speed' = r.speed
            /\ resets' = IF ~sleep /\ r.sleep THEN (IF r.reset THEN 1 ELSE 0)
                         ELSE IF r.reset THEN resets + 1 ELSE resets
            /\ game_result' = [op |-> "run", reset |-> r.reset, exc |-> r.exc]
    /\ UNCHANGED <<direction, player_result, soil_result, it_result,
                   mgrVars, tileVars, timerVars, treeVars>>

DayNext == GameRun

\* A game nobody plays
DayIdle ==
    /\ color = 255
    /\ speed = -2
    /\ resets = 0
    /\ game_result = [op |-> "", reset |-> FALSE, exc |-> ""]

-----------------------------------------------------------------------------
(* The tile rules of create_soil_tiles on their own *)

\* The values (t, r, b, l) can take
Neighbours == BOOLEAN \X BOOLEAN \X BOOLEAN \X BOOLEAN

\* Two cells with any neighbourhoods, their tiles not derived yet
TileInit ==
    /\ tile_in \in Neighbours \X Neighbours
    /\ tile_out = <<"", "">>

\* The rules are applied to both
DeriveTile ==
    /\ tile_out = <<"", "">>
    /\ tile_out' = [i \in 1..2 |-> tile_type(tile_in[i][1], tile_in[i][2],
                                              tile_in[i][3], tile_in[i][4])]
    /\ UNCHANGED <<tile_in, mgrVars, soilVars, itVars, restVars>>

TileNext == DeriveTile

\* No cell is looked at
TileIdle ==
    /\ tile_in = <<<<FALSE, FALSE, FALSE, FALSE>>, <<FALSE, FALSE, FALSE, FALSE>>>>
    /\ tile_out = <<"", "">>

-----------------------------------------------------------------------------
(* Specifications *)

\* A map without farmable tiles, for behaviours of the manager alone
SoilIdle ==
    /\ grid = [c \in Cells |-> NoFlags]
    /\ soil_sprites = [c \in Cells |-> ""]
    /\ all_sprites = [c \in Cells |-> 0]
    /\ water_sprites = [c \in Cells |-> 0]
    /\ plant_sprites = [c \in Cells |-> ""]
    /\ age = [c \in Cells |-> 0]
    /\ harvestable = [c \in Cells |-> FALSE]
    /\ hitbox = [c \in Cells |-> FALSE]
    /\ raining = FALSE
    /\ soil_result = [op |-> "", exc |-> ""]

\* The manager under any sequence of calls and run steps
Init == MgrInit /\ SoilIdle /\ TileIdle /\ ItIdle /\ TimerInit /\ TreeIdle /\ PlayerInit /\ DayIdle
Spec == Init /\ [][MgrNext]_vars

\* The soil layer under any sequence of calls
InitSoil == MgrInit /\ SoilInit /\ TileIdle /\ ItIdle /\ TimerInit /\ TreeIdle /\ PlayerInit /\ DayIdle
SpecSoil == InitSoil /\ [][SoilNext]_vars

\* The tile rules on every pair of neighbourhoods
InitTile == MgrInit /\ SoilIdle /\ TileInit /\ ItIdle /\ TimerInit /\ TreeIdle /\ PlayerInit /\ DayIdle
SpecTile == InitTile /\ [][TileNext]_vars

\* The days and nights of the game; the loop of Game.run goes on
InitDay ==
    MgrInit /\ DayFarm /\ TileIdle /\ ItIdle /\ TimerInit /\ TreeIdle /\ PlayerInit /\ DayInit
SpecDay == InitDay /\ [][DayNext]_vars /\ WF_vars(GameRun)

\* The player, frame by frame
InitPlayer == MgrInit /\ PlayerFarm /\ TileIdle /\ ItIdle /\ TimerInit /\ TreeIdle /\ PlayerInit /\ DayIdle
SpecPlayer == InitPlayer /\ [][PlayerNext]_vars

\* A tree that is hit, picked and grown anew, with the player's inventory
InitTree == MgrInit /\ SoilIdle /\ TileIdle /\ ItIdle /\ TimerInit /\ TreeInit /\ PlayerInit /\ DayIdle
SpecTree == InitTree /\ [][TreeNext]_vars

\* Two timers under any sequence of calls, as time passes
InitTimer == MgrInit /\ SoilIdle /\ TileIdle /\ ItIdle /\ TimerInit /\ TreeIdle /\ PlayerInit /\ DayIdle
SpecTimer == InitTimer /\ [][TimerNext]_vars

\* The iterator under any sequence of calls
InitIterator == MgrInit /\ SoilIdle /\ TileIdle /\ ItInit /\ TimerInit /\ TreeIdle /\ PlayerInit /\ DayIdle
SpecIterator == InitIterator /\ [][IteratorNext]_vars

\* The soil layer and its plants under any sequence of calls and day resets
InitFarm == MgrInit /\ FarmInit /\ TileIdle /\ ItIdle /\ TimerInit /\ TreeIdle /\ PlayerInit /\ DayIdle
SpecFarm == InitFarm /\ [][FarmNext]_vars

-----------------------------------------------------------------------------
(* Properties *)

\* The step is a call of the manager method op (every step records its call)
Called(op) == result'.op = op

\* The exceptions that are errors, not exit signals
TrueErrors == {"StateError", "StateLoadError", "AssertionError", "AttributeError"}

\* C1: after any sequence of get_hit / plant_seed calls (and waterings), in
\* every cell "P" is present only with "X", and "X" only with "F".
C1_PlantedTilledFarmable ==
    \A c \in Cells :
        /\ grid[c].P > 0 => grid[c].X > 0
        /\ grid[c].X > 0 => grid[c].F > 0

\* C1 witness: a plant_seed call has left a planted, tilled, farmable cell.
C1_Witness ==
    /\ soil_result.op = "plant_seed"
    /\ \E c \in Cells : grid[c].P > 0 /\ grid[c].X > 0 /\ plant_sprites[c] # ""

\* C2: as long as no call was made with force, the current state is the
\* instance the registry holds under the name of its class.
C2_ActiveIsRegistered ==
    (~forced /\ current_state # 0) => states[cls[current_state]] = current_state

\* C2 witness: without force, an unload or reload of the current state's name
\* was attempted.
C2_Witness ==
    /\ ~forced
    /\ current_state # 0
    /\ result.op \in {"unload_state", "reload_state"}
    /\ result.arg = <<cls[current_state]>>

\* C3: a change_state that returns sets last_state to the former current state
\* and current_state to the registered instance of the name; no other step
\* changes current_state or last_state.
C3_ChangeState ==
    [][/\ (Called("change_state") /\ result'.exc = "")
            => /\ last_state' = current_state
               /\ current_state' = states[result'.arg[1]]
               /\ current_state' # 0
       /\ (current_state' # current_state \/ last_state' # last_state)
            => (Called("change_state") /\ result'.exc = "")]_vars

\* C3 witness: change_state to the state that was already current, so that
\* last_state and current_state are the same instance.
C3_Witness ==
    /\ result.op = "change_state"
    /\ result.exc = ""
    /\ current_state # 0
    /\ last_state = current_state

\* C4 as claimed: the run_state that follows the exit of the current state
\* raises StateError (no state to run).
C4_Original ==
    (result.op = "run_state" /\ result.after_exit) => result.exc = "StateError"

\* C4 amended: the run_state that follows the exit of the current state enters
\* the run step of the same, still current, state.
C4_RunsAgain ==
    (result.op = "run_state" /\ result.after_exit)
        => /\ result.exc = ""
           /\ pc = "run"
           /\ current_state # 0
           /\ ran[current_state]

\* C4 witness: run_state directly after the run step left through update_state.
C4_Witness ==
    /\ result.op = "run_state"
    /\ result.after_exit
    /\ pc = "run"

\* C5: update_state raises ExitStateError carrying last_state when there is a
\* current state and StateError when there is none, and changes neither the
\* registry nor current_state nor last_state.
C5_UpdateState ==
    [][Called("update_state")
        => /\ current_state # 0
                => (result'.exc = "ExitStateError" /\ result'.carried = last_state)
           /\ current_state = 0 => result'.exc = "StateError"
           /\ UNCHANGED <<states, current_state, last_state>>]_vars

\* C5 witness: after a single change_state, update_state has raised
\* ExitStateError carrying None, and the state is still current.
C5_Witness ==
    /\ result.op = "update_state"
    /\ result.exc = "ExitStateError"
    /\ result.carried = 0
    /\ last_state = 0
    /\ current_state # 0

C7_Outcomes ==
    [][/\ (pc = "run" /\ ~Called("return"))
            => /\ pc' = "idle" <=> result'.exc = "ExitStateError"
               /\ pc' = "quit" <=> result'.exc = "ExitGameError"
               /\ pc' = "crash" <=> result'.exc \in TrueErrors
               /\ pc' = "run" <=> result'.exc = ""
       /\ (pc = "run" /\ pc' = "idle" /\ ~Called("return")) => current_state' # 0
       /\ (Called("run_state") /\ result.at = "run" /\ result.exc = "ExitStateError")
            => (pc' = "run" /\ ran'[current_state])
       /\ (Called("run_state") /\ result'.exc # "") => pc' = "crash"
       /\ pc \notin {"quit", "crash"}]_vars

\* C7 witness: an error raised inside a run step has ended the program as an
\* uncaught exception.
C7_Witness ==
    /\ pc = "crash"
    /\ result.at = "run"
    /\ result.exc = "StateLoadError"

\* C8: load_states without force of a class whose name is registered raises
\* StateLoadError; every registered name keeps its instance, no instance of a
\* registered class is constructed, no stored instance receives setup(), and
\* current_state and last_state are unchanged; when the first class handed
\* over is registered, nothing is constructed at all.
C8_DuplicateLoad ==
    [][(/\ Called("load_states")
        /\ ~result'.force
        /\ \E k \in 1..Len(result'.arg) : states[result'.arg[k]] # 0)
        => /\ result'.exc = "StateLoadError"
           /\ \A n \in StateTypes : states[n] # 0 => states'[n] = states[n]
           /\ \A i \in Insts : i <= ninst => setups'[i] = setups[i]
           /\ \A i \in Insts : (ninst < i /\ i <= ninst') => states[cls'[i]] = 0
           /\ states[result'.arg[1]] # 0 => (ninst' = ninst /\ states' = states)
           /\ UNCHANGED <<current_state, last_state>>]_vars

\* C8 witness: load_states of one registered class without force has raised
\* StateLoadError.
C8_Witness ==
    /\ result.op = "load_states"
    /\ ~result.force
    /\ Len(result.arg) = 1
    /\ result.exc = "StateLoadError"
    /\ states[result.arg[1]] # 0

\* Every constructed instance has received setup() exactly once, and no
\* instance has run without it
SetupOnce ==
    \A i \in Insts :
        /\ i <= ninst => (setups[i] = 1 /\ cls[i] # "")
        /\ i > ninst => (setups[i] = 0 /\ cls[i] = "")
        /\ ran[i] => setups[i] = 1

\* C9: load_states with force returns normally and stores a newly constructed
\* instance under every name handed over, also under a name that was
\* registered; every instance constructed by load_states or reload_state has
\* received setup() exactly once by the end of the call that constructed it,
\* so before any run step of it.
C9_ForceReplaces ==
    /\ []SetupOnce
    /\ [][(Called("load_states") /\ result'.force)
            => /\ result'.exc = ""
               /\ \A k \in 1..Len(result'.arg) :
                    /\ states'[result'.arg[k]] > ninst
                    /\ states'[result'.arg[k]] # states[result'.arg[k]]
                    /\ cls'[states'[result'.arg[k]]] = result'.arg[k]]_vars

\* C9 witness: load_states(Game, Game, force=True) on an empty registry: the
\* second Game replaced the first, both have received setup() once.
C9_Witness ==
    /\ result.op = "load_states"
    /\ result.force
    /\ result.arg = <<"Game", "Game">>
    /\ ninst = 2
    /\ states["Game"] = 2
    /\ setups[1] = 1
    /\ setups[2] = 1

\* C10: change_state with a name that is not registered raises (the assertion
\* fails) and changes neither current_state nor last_state.
C10_UnknownName ==
    [][(Called("change_state") /\ states[result'.arg[1]] = 0)
        => /\ result'.exc = "AssertionError"
           /\ UNCHANGED <<states, current_state, last_state>>]_vars

\* C10 witness: change_state has failed for a name that was unloaded, while
\* another state is current and another one last.
C10_Witness ==
    /\ result.op = "change_state"
    /\ result.exc = "AssertionError"
    /\ current_state # 0
    /\ last_state # current_state

\* C11 as claimed: unload_state without force of the name of the current state
\* raises StateError and changes neither the registry nor current_state nor
\* last_state.
C11_Claim ==
    [][(/\ Called("unload_state")
        /\ ~result'.force
        /\ current_state # 0
        /\ states[result'.arg[1]] = current_state)
        => /\ result'.exc = "StateError"
           /\ UNCHANGED <<states, current_state, last_state>>]_vars

\* C12 as claimed: unload_state without force of a registered name that is not
\* the current state's returns the class stored under the name and removes
\* exactly that name, whether or not another state is current; for a name
\* that is not registered it raises StateLoadError and the registry is
\* unchanged.
C12_Claim ==
    [][(Called("unload_state") /\ ~result'.force)
        => LET name == result'.arg[1] IN
           /\ (states[name] # 0 /\ states[name] # current_state)
                => /\ result'.exc = ""
                   /\ result'.ret_cls = cls[states[name]]
                   /\ states' = [states EXCEPT ![name] = 0]
           /\ states[name] = 0
                => (result'.exc = "StateLoadError" /\ states' = states)]_vars

\* C13 as claimed: reload_state of a registered name that is not the current
\* state's returns a new instance of the same class, stored under the name,
\* with setup() received once; the same names are registered, and
\* current_state and last_state are unchanged.
C13_Claim ==
    [][(/\ Called("reload_state")
        /\ states[result'.arg[1]] # 0
        /\ states[result'.arg[1]] # current_state)
        => LET name == result'.arg[1] IN
           /\ result'.exc = ""
           /\ result'.ret_inst = states'[name]
           /\ states'[name] > ninst
           /\ cls'[states'[name]] = name
           /\ setups'[states'[name]] = 1
           /\ \A n \in StateTypes : (states'[n] # 0) <=> (states[n] # 0)
           /\ UNCHANGED <<current_state, last_state>>]_vars

\* The rules of a neighbourhood n = <<t, r, b, l>> whose guard holds
Matching(n) ==
    LET rules == tile_rules(n[1], n[2], n[3], n[4])
    IN {i \in DOMAIN rules : rules[i][1]}

\* Evaluation that stops at the first rule whose guard holds; the default
\* "o" when none does
FirstMatch(n) ==
    LET rules == tile_rules(n[1], n[2], n[3], n[4])
    IN IF Matching(n) = {} THEN "o"
       ELSE rules[CHOOSE i \in Matching(n) : \A j \in Matching(n) : i <= j][2]

\* C14: for each of the 16 values of (t, r, b, l) exactly one rule of the
\* table applies (one guarded rule, or the default when no neighbour is
\* tilled and only then), the tile type the chain of `if`s ends with is the one
\* of the first rule that matches, and two different values of (t, r, b, l)
\* never get the same tile type.
C14_TileVariants ==
    tile_out # <<"", "">> =>
        /\ \A i \in 1..2 :
            LET n == tile_in[i] IN
            /\ Cardinality(Matching(n)) <= 1
            /\ (Matching(n) = {}) <=> ~(n[1] \/ n[2] \/ n[3] \/ n[4])
            /\ tile_out[i] = FirstMatch(n)
        /\ (tile_in[1] # tile_in[2]) => (tile_out[1] # tile_out[2])

\* Tiles derived for a cell with all four neighbours tilled and for a cell
\* with all but the top one
C14_Witness ==
    /\ tile_in = <<<<TRUE, TRUE, TRUE, TRUE>>, <<FALSE, TRUE, TRUE, TRUE>>>>
    /\ tile_out = <<"x", "lrt">>

\* The cell holds "X"; a position outside the grid holds nothing
Tilled(cell) == cell \in Cells /\ grid[cell].X > 0

\* The tile type of a cell when positions outside the grid count as not tilled
BoundedTile(c) ==
    tile_type(Tilled(<<c[1] - 1, c[2]>>), Tilled(<<c[1], c[2] + 1>>),
              Tilled(<<c[1] + 1, c[2]>>), Tilled(<<c[1], c[2] - 1>>))

\* C15 as claimed: the tile of a tilled cell is derived from its neighbours
\* inside the grid only; a neighbour position outside the grid counts as not
\* tilled, also for cells on the border (no wrap-around to the opposite row
\* or column).
C15_Claim ==
    \A c \in Cells : soil_sprites[c] # "" => soil_sprites[c] = BoundedTile(c)

\* C16 as claimed: no call of the soil layer raises, whatever the point and
\* the state of the grid, tilling a cell of the first or last row or column
\* included.
C16_Claim == soil_result.exc = ""

\* The step is the call get_hit(point)
HitStep(point) ==
    /\ soil_result'.op = "get_hit"
    /\ LET s == get_hit(point, Soil) IN
       /\ grid' = s.grid
       /\ soil_sprites' = s.soil_sprites
       /\ water_sprites' = s.water_sprites
       /\ soil_result'.exc = s.exc

\* The point lies in a cell that holds "F" and no "X"
Untilled(point) ==
    \E c \in Cells : collidepoint(c, point) /\ grid[c].F > 0 /\ grid[c].X = 0

\* C17 as claimed: get_hit changes the grid only for a point in a farmable
\* cell that is not tilled yet; for a point in a tilled cell or in no farmable
\* cell every cell keeps its flags, the tiles are not made anew and nothing
\* is watered.
C17_Claim ==
    [][\A point \in Points :
          (HitStep(point) /\ ~Untilled(point))
              => UNCHANGED <<grid, soil_sprites, water_sprites>>]_vars

\* C18 as claimed: water() on a watered cell adds neither a flag nor a
\* WaterTile, so after any sequence of get_hit, water, water_all and
\* remove_water a cell has one live WaterTile when it holds "W" and none when
\* it does not.
C18_Claim ==
    \A c \in Cells : water_sprites[c] = (IF grid[c].W > 0 THEN 1 ELSE 0)

\* C19 as claimed: right after remove_water no cell holds "W",
\* check_watered is False for every point of the grid and no WaterTile is
\* alive, also when a cell was watered more than once before.
C19_Claim ==
    soil_result.op = "remove_water" =>
        \A c \in Cells :
            /\ grid[c].W = 0
            /\ ~check_watered(Middle(c), Soil).is_watered
            /\ water_sprites[c] = 0

\* C20 as claimed: a get_hit made while raining leaves the cell it tilled
\* watered, and water_all puts "W" in every cell that holds "X" and no "W" and
\* changes no other cell, so that while it rains every tilled cell is watered.
C20_Claim ==
    [][/\ (soil_result'.op = "get_hit" /\ raining)
            => \A c \in Cells : (grid[c].X = 0 /\ grid'[c].X > 0) => grid'[c].W > 0
       /\ soil_result'.op = "water_all"
            => \A c \in Cells :
                  IF grid[c].X > 0 /\ grid[c].W = 0
                  THEN grid'[c] = [grid[c] EXCEPT !.W = 1]
                  ELSE grid'[c] = grid[c]]_vars

\* The step is the call plant_seed(point, seed)
PlantStep(point, seed) ==
    /\ soil_result'.op = "plant_seed"
    /\ LET s == plant_seed(point, seed, Soil) IN
       /\ grid' = s.grid
       /\ plant_sprites' = s.plant_sprites
       /\ soil_result'.exc = s.exc

\* C21 as claimed: plant_seed on a point of a cell that holds "X" and no "P"
\* puts "P" in the cell and makes one Plant of the seed's kind with age 0 that
\* is not harvestable; on a point of any other cell it changes nothing; and a
\* cell has a live Plant exactly when it holds "P" (once).
C21_Claim ==
    [][\A point \in Points, seed \in SeedKinds :
          PlantStep(point, seed) =>
              /\ \A c \in Cells :
                    IF collidepoint(c, point) /\ grid[c].X > 0 /\ grid[c].P = 0
                    THEN /\ grid'[c] = [grid[c] EXCEPT !.P = 1]
                         /\ plant_sprites'[c] = seed
                         /\ age'[c] = 0
                         /\ ~harvestable'[c]
                    ELSE /\ grid'[c] = grid[c]
                         /\ plant_sprites'[c] = plant_sprites[c]
              /\ \A c \in Cells :
                    /\ grid'[c].P <= 1
                    /\ (plant_sprites'[c] # "") <=> (grid'[c].P = 1)]_vars

\* The smaller of two ages
Min(a, b) == IF a <= b THEN a ELSE b

\* C22: update_plants adds the grow speed of its kind to the age of every
\* plant whose cell holds "W", up to max_age, and leaves age and harvestable
\* of every plant on a cell without "W" as they are; the age of a plant is
\* always between 0 and max_age and no step lowers it.
C22_Growth ==
    [][/\ soil_result'.op = "update_plants" =>
            \A c \in Cells : plant_sprites[c] # "" =>
                IF grid[c].W > 0
                THEN age'[c] = Min(age[c] + GROW_SPEED[plant_sprites[c]], max_age)
                ELSE age'[c] = age[c] /\ harvestable'[c] = harvestable[c]
       /\ \A c \in Cells :
            /\ 0 <= age'[c] /\ age'[c] <= max_age
            /\ plant_sprites[c] # "" => age'[c] >= age[c]]_vars

\* update_plants has just let a tomato on a watered cell grow a second time
C22_Witness ==
    /\ soil_result.op = "update_plants"
    /\ \E c \in Cells : plant_sprites[c] = "tomato" /\ grid[c].W > 0 /\ age[c] = 14

\* C23: a plant is harvestable exactly when its age has reached max_age:
\* harvestable is False while age < max_age, turns True in the very call of
\* grow that brings age to max_age, and stays True as long as the plant lives.
C23_Harvestable ==
    [][\A c \in Cells :
          /\ plant_sprites'[c] # "" => (harvestable'[c] <=> age'[c] >= max_age)
          /\ (plant_sprites[c] # "" /\ ~harvestable[c] /\ harvestable'[c])
                => /\ soil_result'.op \in {"update_plants", "reset"}
                   /\ age[c] < max_age
                   /\ age'[c] = max_age
          /\ (harvestable[c] /\ plant_sprites'[c] # "") => harvestable'[c]]_vars

\* The day reset at which a corn plant has reached max_age
C23_Witness ==
    /\ soil_result.op = "reset"
    /\ \E c \in Cells : plant_sprites[c] = "corn" /\ age[c] = max_age /\ harvestable[c]

\* C25 as claimed: a plant has a hitbox exactly when its age is greater than
\* 0, whatever the grow speed of its kind.
C25_Original ==
    \A c \in Cells : plant_sprites[c] # "" => (hitbox[c] <=> age[c] > 0)

\* C25, amended: a plant has a hitbox exactly when int(age) > 0, that is when
\* its age is at least 1; it gets the hitbox in the call of grow that brings
\* its age to 1 or more and keeps it.
C25_Collidable ==
    [][\A c \in Cells :
          /\ plant_sprites'[c] # "" => (hitbox'[c] <=> age'[c] \div 10 > 0)
          /\ (plant_sprites[c] # "" /\ ~hitbox[c] /\ hitbox'[c])
                => /\ soil_result'.op \in {"update_plants", "reset"}
                   /\ age[c] < 10
                   /\ age'[c] >= 10
          /\ (hitbox[c] /\ plant_sprites'[c] # "") => hitbox'[c]]_vars

\* update_plants has let a tomato grow once: its age is 0.7 and it has no
\* hitbox
C25_Witness ==
    /\ soil_result.op = "update_plants"
    /\ \E c \in Cells : plant_sprites[c] = "tomato" /\ age[c] = 7 /\ ~hitbox[c]

\* C24 as claimed: when plant_collision harvests a plant, which it does only
\* to a harvestable one, the Plant is gone, its cell has lost "P" and kept
\* "X" and "W", and the inventory holds 2 more of the plant's type, while its
\* keys, its index, its selection and every other quantity are as before.
C24_Claim ==
    [][(soil_result'.op = "plant_collision" /\ it_result'.op = "update_item")
        => \E c \in Cells :
            /\ plant_sprites[c] # "" /\ harvestable[c]
            /\ plant_sprites'[c] = ""
            /\ grid'[c] = [grid[c] EXCEPT !.P = 0]
            /\ it_result'.exc = ""
            /\ inv' = [inv EXCEPT ![plant_sprites[c]] = @ + 2]
            /\ UNCHANGED <<seq, index, selected>>]_vars

\* C26 as claimed: after a get_hit that made the tiles anew, the SoilTiles
\* alive are one per cell that holds "X", in all_sprites (the group that is
\* drawn) as in soil_sprites: the tiles of earlier calls are gone from every
\* group. Stated for the calls that returned, on grids where no cell was
\* tilled twice and soil_sprites has the tile of every tilled cell.
C26_Claim ==
    (/\ soil_result.op = "get_hit"
     /\ soil_result.exc = ""
     /\ \A c \in Cells : grid[c].X <= 1 /\ (grid[c].X > 0 <=> soil_sprites[c] # ""))
        => \A c \in Cells : all_sprites[c] = (IF grid[c].X > 0 THEN 1 ELSE 0)

\* next() applied n times
RECURSIVE NextTimes(_, _)
NextTimes(n, it) == IF n = 0 THEN it ELSE NextTimes(n - 1, next(it))

\* C27 as claimed: in every state of an iterator that holds keys, next()
\* called as many times as seq has elements raises nothing and brings index
\* back to where it was, and so does next() followed by previous().
C27_Claim ==
    Len(seq) > 0 =>
        /\ NextTimes(Len(seq), It).exc = ""
        /\ NextTimes(Len(seq), It).index = index
        /\ previous(next(It)).exc = ""
        /\ previous(next(It)).index = index

\* C28 as claimed: in every state of an iterator that holds keys index is a
\* position of seq, max_index is the last position, and selected is the key
\* at index (so that after remove the index lies within the shorter seq and
\* selected is a key that seq still holds).
C28_Claim ==
    Len(seq) > 0 =>
        /\ 0 <= index
        /\ index < Len(seq)
        /\ max_index = Len(seq) - 1
        /\ selected = seq[index + 1]

\* A step that is the call append(element)
AppendStep(element) ==
    /\ it_result'.op = "append"
    /\ LET it == append(element, It) IN
       /\ seq' = it.seq
       /\ index' = it.index
       /\ max_index' = it.max_index
       /\ inv' = it.inv

\* No key is in the list twice
Distinct(keys) == \A i, j \in DOMAIN keys : i # j => keys[i] # keys[j]

\* C29 as claimed: append of a key that seq already holds changes neither
\* seq nor index nor the quantities, and seq holds no key twice afterwards.
C29_Claim ==
    [][\A element \in Keys :
        (AppendStep(element) /\ InSeq(element, It))
            => (UNCHANGED <<seq, index, inv>> /\ Distinct(seq'))]_vars

\* A step that is the call update_item(amount, item)
UpdateStep(amount, item) ==
    /\ it_result'.op = "update_item"
    /\ LET it == update_item([int |-> amount], item, It) IN
       /\ seq' = it.seq
       /\ index' = it.index
       /\ max_index' = it.max_index
       /\ inv' = it.inv
       /\ it_result'.exc = it.exc

\* What C30 claims of a step update_item(amount, item): no exception, index
\* unchanged, the quantity of the key (selected when item is None) is the old
\* one plus amount, or amount for a key that seq did not hold and that is now
\* its last element, and every other quantity is unchanged.
Updated(amount, item) ==
    LET key == IF item = None THEN selected ELSE item IN
    /\ it_result'.exc = ""
    /\ index' = index
    /\ DOMAIN inv' = DOMAIN inv \cup {key}
    /\ \A k \in DOMAIN inv \ {key} : inv'[k] = inv[k]
    /\ IF InSeq(key, It)
       THEN /\ seq' = seq
            /\ key \in DOMAIN inv
            /\ inv'[key] = inv[key] + amount
       ELSE /\ seq' = Append(seq, key)
            /\ inv'[key] = amount

\* C30 as claimed: every call of update_item does what Updated says.
C30_Claim ==
    [][\A amount \in Amounts, item \in Keys \cup {None} :
        UpdateStep(amount, item) => Updated(amount, item)]_vars

\* A step that is the call set_item(item, value)
SetStep(item, value) ==
    /\ it_result'.op = "set_item"
    /\ LET it == set_item(item, value, It) IN
       /\ seq' = it.seq
       /\ index' = it.index
       /\ max_index' = it.max_index
       /\ inv' = it.inv
       /\ it_result'.exc = it.exc

\* C31 as claimed: after set_item(item, value) the quantity of item is value,
\* whether seq held item (seq unchanged) or not (item is then the new last
\* element of seq), and index and every other quantity are unchanged.
C31_Claim ==
    [][\A item \in Keys, value \in Amounts :
        SetStep(item, value)
            => /\ it_result'.exc = ""
               /\ index' = index
               /\ DOMAIN inv' = DOMAIN inv \cup {item}
               /\ \A k \in DOMAIN inv \ {item} : inv'[k] = inv[k]
               /\ inv'[item] = value
               /\ seq' = IF InSeq(item, It) THEN seq ELSE Append(seq, item)]_vars

\* C40: through tilling, watering, rain, drying, planting and day resets every
\* cell that holds "W" holds "X".
C40_WaterOnTilled == \A c \in Cells : grid[c].W > 0 => grid[c].X > 0

\* A tilled cell is wet after a call of water
C40_Witness ==
    /\ soil_result.op = "water"
    /\ \E c \in Cells : grid[c].W > 0 /\ grid[c].X > 0

Replaced(t) ==
    /\ result'.op \in {"load_states", "reload_state"}
    /\ result'.force
    /\ result'.exc = ""
    /\ \E k \in DOMAIN result'.arg : result'.arg[k] = t

\* C37: load_states(force=True) or reload_state(force=True) on the name of
\* the current state leaves current_state on the old instance, which the
\* registry no longer holds; only change_state gives the manager another
\* current state, and run_state runs the one it has and no other.
C37_StaleCurrent ==
    [][/\ (current_state # 0 /\ Replaced(cls[current_state]))
            => /\ current_state' = current_state
               /\ \A t \in StateTypes : states'[t] # current_state
               /\ states'[cls[current_state]] # 0
       /\ current_state' # current_state => result'.op = "change_state"
       /\ (result'.op = "run_state" /\ result'.exc = "")
            => /\ ran'[current_state]
               /\ \A i \in Insts \ {current_state} : ran'[i] = ran[i]]_vars

\* run_state has run the old instance of a state whose name the registry
\* holds with a newer instance that never ran
C37_Witness ==
    /\ result.op = "run_state"
    /\ result.exc = ""
    /\ current_state # 0
    /\ states[cls[current_state]] \notin {0, current_state}
    /\ ~ran[states[cls[current_state]]]
    /\ forced

\* C32 as claimed: update calls the timer's func exactly when the timer is
\* active and at least its duration has passed since it was activated,
\* whatever the clock showed then, and the timer is inactive after that call
\* of update; so func is called once for an activation, and never for one
\* that was deactivated or on an inactive timer.
C32_Claim ==
    [][\A n \in Timed :
        (timer_result'.op = "update" /\ timer_result'.name = n)
            => LET expired == /\ timers[n].active
                              /\ now - timers[n].start_time >= Durations[n]
               IN /\ timer_result'.called <=> expired
                  /\ expired => ~timers'[n].active]_vars

\* The quantity the inventory holds of a key, 0 for a key it does not hold
Qty(key, quantities) == IF key \in DOMAIN quantities THEN quantities[key] ELSE 0

\* C35: every call of damage lowers the tree's health by one and nothing else
\* changes it; the call that brings health to 0 adds one wood and one apple
\* per apple on the tree to the inventory and takes the apples off the tree;
\* every other call of damage leaves the inventory as it is. So the
\* inventory holds one wood once health is 0 or less and none before.
C35_DropOnce ==
    [][/\ health' # health => tree_result'.op = "damage"
       /\ tree_result'.op = "damage" =>
            /\ health' = health - 1
            /\ tree_result'.exc = ""
            /\ IF health' = 0
               THEN /\ Qty("wood", inv') = Qty("wood", inv) + 1
                    /\ Qty("apple", inv') = Qty("apple", inv) + apples
                    /\ apples' = 0
               ELSE inv' = inv /\ seq' = seq /\ apples' = apples
       /\ Qty("wood", inv') = (IF health' <= 0 THEN 1 ELSE 0)]_vars

\* The tree is a stump that was hit again, and its apples and its wood were
\* paid once
C35_Witness ==
    /\ tree_result.op = "damage"
    /\ health < 0
    /\ Qty("wood", inv) = 1
    /\ Qty("apple", inv) >= 2

\* C33: input moves the inventory's index only in a frame that begins with
\* the tool_use timer and the tool_switch timer inactive, and the frame ends
\* with the tool_switch timer active since this frame's clock; the index
\* changes in no other way; and the tool_switch timer, once active, keeps its
\* start_time and becomes inactive only when its duration has passed. So
\* two moves of the index are at least the tool_switch duration apart.
C33_SwitchCooldown ==
    [][/\ player_result'.moved =>
            /\ ~timers.tool_use.active
            /\ ~timers.tool_switch.active
            /\ timers'.tool_switch = [start_time |-> now', active |-> TRUE]
       /\ index' # index => player_result'.moved
       /\ timers.tool_switch.active =>
            IF timers'.tool_switch.active
            THEN timers'.tool_switch.start_time = timers.tool_switch.start_time
            ELSE now' - timers.tool_switch.start_time >= Durations.tool_switch]_vars

\* e has moved the index a second time, in the first frame after the frame
\* in which the tool_switch timer of the first move expired
C33_Witness ==
    /\ player_result.moved
    /\ index = 2
    /\ now = 400

\* C38: while the tool_use timer is active the inventory's index and
\* selection do not change and the player's direction is zero, and use_tool,
\* called when the timer expires, acts for the key that was selected
\* throughout.
C38_ToolUse ==
    [][/\ timers.tool_use.active =>
            /\ index' = index
            /\ selected' = selected
       /\ timers'.tool_use.active => direction' = <<0, 0>>
       /\ "tool_use" \in player_result'.called =>
            /\ timers.tool_use.active
            /\ now' - timers.tool_use.start_time >= Durations.tool_use
            /\ player_result'.tool = selected]_vars

\* The tool_use timer has expired with the watering can selected
C38_Witness ==
    /\ "tool_use" \in player_result.called
    /\ player_result.tool = "water"
    /\ ~timers.tool_use.active

\* C34 as claimed: use_tool with a seed selected activates the seed_use
\* timer; when that timer expires use_seed raises nothing and, if the
\* inventory holds more than 0 of the selected seed, has called plant_seed
\* for a point the player reaches with the selected seed, so that a tilled
\* cell without a plant there has one of that kind; with a quantity of 0 or
\* less no plant is added.
C34_Claim ==
    [][/\ ("tool_use" \in player_result'.called /\ player_result'.tool \in SeedKinds)
            => timers'.seed_use.active
       /\ "seed_use" \in player_result'.called =>
            /\ player_result'.exc = ""
            /\ IF Qty(selected, inv) > 0
               THEN \E point \in Reach :
                        /\ plant_sprites' = plant_seed(point, selected, Soil).plant_sprites
                        /\ grid' = plant_seed(point, selected, Soil).grid
               ELSE plant_sprites' = plant_sprites /\ grid' = grid]_vars

====
